---- MODULE Spec2Model ----
(***************************************************************************)
(* Domain discovery and component loading of vnext-sys-flow (index.js).    *)
(* The filesystem is the state the module reads; every accessor is one     *)
(* synchronous call that reads it and returns (or throws).                 *)
(***************************************************************************)
EXTENDS Integers, Sequences, FiniteSets, TLC

VARIABLES
  rootReadable,  \* whether fs.readdirSync('.') of the working directory succeeds
  root,          \* the working directory's entries, in enumeration order
  config,        \* the file vnext.config.json at the working root
  ret,           \* the most recent accessor call: which one, how it ended, its value,
                 \* whether it repeated the call before it, and whether the caller
                 \* had changed the object it held when the call was made
  warnings,      \* the console.warn lines the most recent call emitted
  held,          \* the object the most recent call handed out, as its caller has it now
  environment,   \* the value of ASPNETCORE_ENVIRONMENT in the workflow host, null if unset
  daprTask,      \* the service task a mapping script is handed: its appId and methodName
  running        \* a call of getSchemas followed one filesystem access at a time:
                 \* where it is, and its local variables

vars == <<rootReadable, root, config, ret, warnings, held, environment, daprTask, running>>
fsVars == <<rootReadable, root, config>>
hostVars == <<environment, daprTask, running>>

----------------------------------------------------------------------------
(* Bounds of the model.                                                    *)

MaxRoot == 2        \* entries of the working directory (locator runs)
MaxFiles == 2       \* entries of one component directory (loader runs)
MaxChildren == 2    \* component subdirectories beneath one domain (accessor runs)

----------------------------------------------------------------------------
(* JavaScript strings and values.                                          *)

startsWith(s, p) == Len(s) >= Len(p) /\ SubSeq(s, 1, Len(p)) = p

endsWith(s, p) == Len(s) >= Len(p) /\ SubSeq(s, Len(s) - Len(p) + 1, Len(s)) = p

\* The least element of a non-empty set of positions.
least(hits) == CHOOSE i \in hits : \A j \in hits : i <= j

\* String.prototype.indexOf, 1-based; 0 when p does not occur in s.
firstOf(hits) == IF hits = {} THEN 0 ELSE least(hits)
indexOf(s, p) ==
  firstOf({i \in 1..(Len(s) - Len(p) + 1) : SubSeq(s, i, i + Len(p) - 1) = p})

\* s with the n characters at position i replaced by r; s itself when i is 0.
splice(s, i, n, r) ==
  IF i = 0 THEN s ELSE SubSeq(s, 1, i - 1) \o r \o SubSeq(s, i + n, Len(s))

\* String.prototype.replace with a string pattern: the FIRST occurrence only.
replace(s, p, r) == splice(s, indexOf(s, p), Len(p), r)

pathJoin(a, b) == a \o "/" \o b

\* A JavaScript value: its kind and its canonical text.
Null == [t |-> "null", v |-> "null"]
Str(s) == [t |-> "string", v |-> s]

\* JSON.parse: the value a text denotes, or a SyntaxError.
JSONparse(text) ==
  CASE text = "{\"x\":1}"          -> [ok |-> TRUE, val |-> [t |-> "object", v |-> text]]
    [] text = "{\"key\":\"flow1\"}" -> [ok |-> TRUE, val |-> [t |-> "object", v |-> text]]
    [] text = "[1]"                -> [ok |-> TRUE, val |-> [t |-> "array", v |-> text]]
    [] text = "42"                 -> [ok |-> TRUE, val |-> [t |-> "number", v |-> text]]
    [] text = "\"s\""              -> [ok |-> TRUE, val |-> [t |-> "string", v |-> "s"]]
    [] text = "true"               -> [ok |-> TRUE, val |-> [t |-> "boolean", v |-> text]]
    [] text = "null"               -> [ok |-> TRUE, val |-> Null]
    [] OTHER                       -> [ok |-> FALSE, val |-> Null]

----------------------------------------------------------------------------
(* The filesystem.                                                         *)

Subdirs == {"Schemas", "Workflows", "Tasks", "Views", "Functions", "Extensions"}

NoNode == [kind |-> "none", list |-> <<>>]
FileNode == [kind |-> "file", list |-> <<>>]
DirNode(list) == [kind |-> "dir", list |-> list]

\* An entry of a component directory: a file, or a folder with the entries
\* inside it (inner), which a listing of the component directory does not show.
File(name, text) ==
  [name |-> name, kind |-> "file", readable |-> TRUE, text |-> text, inner |-> <<>>]
LockedFile(name) ==
  [name |-> name, kind |-> "file", readable |-> FALSE, text |-> "", inner |-> <<>>]
NestedFolder(name, list) ==
  [name |-> name, kind |-> "dir", readable |-> TRUE, text |-> "", inner |-> list]
SubFolder(name) == NestedFolder(name, <<>>)

NoSub == [s \in Subdirs |-> NoNode]

\* The node a relative path <entry>/<Subdir> names; symbolic links are followed.
nodeOf(h) == root[h[1]].sub[h[2]]
pickNode(hits) == IF hits = {} THEN NoNode ELSE nodeOf(CHOOSE h \in hits : TRUE)
NodeAt(p) ==
  pickNode({h \in (1..Len(root)) \X Subdirs : pathJoin(root[h[1]].name, h[2]) = p})

existsSync(p) == NodeAt(p).kind # "none"

\* fs.readdirSync(p, {withFileTypes: true}): the entries, or ENOTDIR / ENOENT.
listNode(node) ==
  IF node.kind = "dir" THEN [ok |-> TRUE, entries |-> node.list]
  ELSE [ok |-> FALSE, entries |-> <<>>]
readdirSync(p) == listNode(NodeAt(p))

\* Dirent.isDirectory() / Dirent.isFile(): both false of a symbolic link.
isDirectory(entry) == entry.kind = "dir"
\* Variant of isFile that holds of every entry.
isAnyEntry(entry) == TRUE

isFile(entry) == entry.kind = "file"

----------------------------------------------------------------------------
(* index.js: the Domain Locator.                                           *)

Return(v) == [outcome |-> "return", val |-> v, warns |-> <<>>]
Throw == [outcome |-> "throw", val |-> Null, warns |-> <<>>]

\* Variant of the entry filter without the tests on the name.
isCandidateAnyName(entry) == isDirectory(entry)

\* The entry filter of findDomainDirectory.
isCandidate(entry) ==
  /\ isDirectory(entry)
  /\ ~startsWith(entry.name, ".")
  /\ entry.name # "node_modules"
  /\ entry.name # "dist"

\* Variants of the marker test: Schemas dropped, Schemas alone, any component.
hasMarkerNoSchemas(domainPath) ==
  \/ existsSync(pathJoin(domainPath, "Workflows"))
  \/ existsSync(pathJoin(domainPath, "Tasks"))

hasMarkerSchemasOnly(domainPath) == existsSync(pathJoin(domainPath, "Schemas"))

hasMarkerAnySubdir(domainPath) ==
  \E s \in Subdirs : existsSync(pathJoin(domainPath, s))

\* "Check if it contains typical vnext structure".
hasMarker(domainPath) ==
  \/ existsSync(pathJoin(domainPath, "Schemas"))
  \/ existsSync(pathJoin(domainPath, "Workflows"))
  \/ existsSync(pathJoin(domainPath, "Tasks"))

\* Variant of the loop without the early return: the LAST match wins.
findFromLast(entries) ==
  LET found[i \in 0..Len(entries)] ==
        IF i = 0 THEN Null
        ELSE IF isCandidate(entries[i]) /\ hasMarker(entries[i].name)
             THEN Str(entries[i].name)
             ELSE found[i - 1]
  IN found[Len(entries)]

\* Variant of the loop that falls back to the template directory "core" when
\* nothing matches.
findFromOrCore(entries) ==
  LET n == Len(entries)
      found[i \in 0..n] ==
        IF i = 0 THEN Str("core")
        ELSE IF isCandidate(entries[n - i + 1]) /\ hasMarker(entries[n - i + 1].name)
             THEN Str(entries[n - i + 1].name)
             ELSE found[i - 1]
  IN found[n]

\* The for-loop of findDomainDirectory: found[i] is what the loop returns when it
\* starts at entry Len(entries) - i + 1 (found[0]: past the last entry, null).
findFrom(entries) ==
  LET n == Len(entries)
      found[i \in 0..n] ==
        IF i = 0 THEN Null
        ELSE LET entry == entries[n - i + 1]
             IN IF isCandidate(entry) /\ hasMarker(entry.name)
                THEN Str(entry.name)
                ELSE found[i - 1]
  IN found[n]

\* Variant that swallows the failure to list the working directory.
findDomainDirectoryQuiet ==
  IF ~rootReadable THEN Return(Null) ELSE Return(findFrom(root))

findDomainDirectory ==
  IF ~rootReadable THEN Throw ELSE Return(findFrom(root))

----------------------------------------------------------------------------
(* index.js: the Component Loader.                                         *)

EmptyObject == <<>>

\* Variant of the assignment that keeps the value a key already has.
putIfAbsent(files, key, value) ==
  IF key \in DOMAIN files THEN files ELSE (key :> value) @@ files

\* files[key] = value
put(files, key, value) == (key :> value) @@ files

\* fs.readFileSync(path.join(dirPath, name), 'utf8'): the text, or an error.
readFile(e) ==
  IF e.kind # "file" THEN [ok |-> FALSE, text |-> "", error |-> "EISDIR"]
  ELSE IF ~e.readable THEN [ok |-> FALSE, text |-> "", error |-> "EACCES"]
  ELSE [ok |-> TRUE, text |-> e.text, error |-> ""]
readNamed(es) ==
  IF es = {} THEN [ok |-> FALSE, text |-> "", error |-> "ENOENT"]
  ELSE readFile(CHOOSE e \in es : TRUE)
namedIn(list, name) == {list[i] : i \in {j \in 1..Len(list) : list[j].name = name}}
readFileSync(dirPath, name) == readNamed(namedIn(NodeAt(dirPath).list, name))

\* The key a file is stored under.
baseName(name) == replace(name, ".json", "")

\* The body of the try block for one entry: read, parse, derive the key.
Failed(error) == [ok |-> FALSE, key |-> "", content |-> Null, error |-> error]
parsedAs(parsed, name) ==
  IF ~parsed.ok THEN Failed("SyntaxError")
  ELSE [ok |-> TRUE, key |-> baseName(name), content |-> parsed.val, error |-> ""]
parseRead(r, name) ==
  IF ~r.ok THEN Failed(r.error) ELSE parsedAs(JSONparse(r.text), name)
tryLoad(dirPath, entry) == parseRead(readFileSync(dirPath, entry.name), entry.name)

\* What one turn leaves: the file stored on success, a warning on failure.
settle(t, entry, acc) ==
  IF t.ok
  THEN [files |-> put(acc.files, t.key, t.content), warns |-> acc.warns]
  ELSE [files |-> acc.files,
        warns |-> Append(acc.warns, [file |-> entry.name, error |-> t.error])]

\* Variant of the turn in which the first warning ends the loading.
loadEntryUntilWarning(dirPath, entry, acc) ==
  IF acc.warns # <<>> THEN acc
  ELSE IF isFile(entry) /\ endsWith(entry.name, ".json")
       THEN settle(tryLoad(dirPath, entry), entry, acc)
       ELSE acc

\* One turn of the for-loop of loadJsonFiles; acc is files and the warnings so far.
loadEntry(dirPath, entry, acc) ==
  IF isFile(entry) /\ endsWith(entry.name, ".json")
  THEN settle(tryLoad(dirPath, entry), entry, acc)
  ELSE acc

\* Variant with `files` kept at module level: the loop starts from the mapping
\* handed out before, which its caller may have changed.
loadFromShared(dirPath, entries) ==
  LET after[i \in 0..Len(entries)] ==
        IF i = 0
        THEN [files |-> IF held.op \in {"getSchemas", "getWorkflows", "getTasks",
                                        "getViews", "getFunctions", "getExtensions"}
                        THEN held.val ELSE EmptyObject,
              warns |-> <<>>]
        ELSE loadEntry(dirPath, entries[i], after[i - 1])
  IN after[Len(entries)]

\* The for-loop of loadJsonFiles: after[i] is files and warnings after i entries.
loadFrom(dirPath, entries) ==
  LET after[i \in 0..Len(entries)] ==
        IF i = 0 THEN [files |-> EmptyObject, warns |-> <<>>]
        ELSE loadEntry(dirPath, entries[i], after[i - 1])
  IN after[Len(entries)]

\* Variant that returns the mapping handed out before, with the files of this
\* load added to it.
loadedMerged(r) ==
  [outcome |-> "return",
   val |-> IF held.op \in {"getSchemas", "getWorkflows", "getTasks",
                           "getViews", "getFunctions", "getExtensions"}
           THEN r.files @@ held.val ELSE r.files,
   warns |-> r.warns]

loaded(r) == [outcome |-> "return", val |-> r.files, warns |-> r.warns]
loadListing(dirPath, d) ==
  IF ~d.ok THEN Throw ELSE loaded(loadFrom(dirPath, d.entries))

\* Variant without the existence check.
loadJsonFilesUnchecked(dirPath) == loadListing(dirPath, readdirSync(dirPath))

loadJsonFiles(dirPath) ==
  IF ~existsSync(dirPath) THEN Return(EmptyObject)
  ELSE loadListing(dirPath, readdirSync(dirPath))

----------------------------------------------------------------------------
(* index.js: the exported accessors.                                       *)

TypeList == <<"schemas", "workflows", "tasks", "views", "functions", "extensions">>

\* fs.readFileSync('vnext.config.json', 'utf8')
readConfig ==
  IF ~config.exists THEN [ok |-> FALSE, text |-> "", error |-> "ENOENT"]
  ELSE IF ~config.readable THEN [ok |-> FALSE, text |-> "", error |-> "EACCES"]
  ELSE [ok |-> TRUE, text |-> config.text, error |-> ""]

\* Variant without the try/catch.
parsedOrThrow(t) == IF t.ok THEN Return(t.content) ELSE Throw

\* try { return JSON.parse(...) } catch (error) { return null }
parsedOrNull(t) == IF t.ok THEN Return(t.content) ELSE Return(Null)
getDomainConfig == parsedOrNull(parseRead(readConfig, "vnext.config.json"))

\* The shape the six component accessors share.
loadUnder(domainDir, subdir) ==
  IF domainDir.outcome = "throw" THEN Throw
  ELSE IF domainDir.val = Null THEN Return(EmptyObject)
  ELSE loadJsonFiles(pathJoin(domainDir.val.v, subdir))
\* Variant with one module-level mapping that every accessor hands out once it
\* has been filled.
componentCached(subdir) ==
  IF held.op \in {"getSchemas", "getWorkflows", "getTasks",
                  "getViews", "getFunctions", "getExtensions"}
  THEN Return(held.val)
  ELSE loadUnder(findDomainDirectory, subdir)

component(subdir) == loadUnder(findDomainDirectory, subdir)

getSchemas == component("Schemas")
getWorkflows == component("Workflows")
getTasks == component("Tasks")
\* Variant with the subdirectory of another accessor pasted in.
getViewsOfSchemas == component("Schemas")

getViews == component("Views")
getFunctions == component("Functions")
getExtensions == component("Extensions")

\* Variant with the array kept at module level and handed out again.
getSharedTypes ==
  Return(IF held.op = "getAvailableTypes" THEN held.val ELSE TypeList)

getAvailableTypes == Return(TypeList)

getDomainName == findDomainDirectory

ComponentOps ==
  {"getSchemas", "getWorkflows", "getTasks", "getViews", "getFunctions", "getExtensions"}

----------------------------------------------------------------------------
(* One call of an accessor, and what a caller may do with what it got.     *)

NoCall == [op |-> "none", outcome |-> "none", val |-> Null,
           again |-> FALSE, after |-> FALSE, stale |-> FALSE, turned |-> FALSE]
NoHeld == [op |-> "none", val |-> Null, mutated |-> FALSE]
NoTask == [appId |-> Null, methodName |-> Null]
Idle == [pc |-> "idle", dirPath |-> "", entries |-> <<>>, i |-> 0,
         acc |-> [files |-> <<>>, warns |-> <<>>]]

\* Variant of a call that answers from what the same accessor answered last.
FinishMemo(op, r) ==
  /\ ret' = [op |-> op,
             outcome |-> IF ret.op = op THEN ret.outcome ELSE r.outcome,
             val |-> IF ret.op = op THEN ret.val ELSE r.val,
             again |-> (ret.op = op),
             after |-> held.mutated,
             stale |-> FALSE,
             turned |-> FALSE]
  /\ warnings' = r.warns
  /\ held' = IF r.outcome = "return"
             THEN [op |-> op, val |-> r.val, mutated |-> FALSE]
             ELSE NoHeld
  /\ UNCHANGED <<fsVars, hostVars>>

\* Variant of a call that removes the configuration file it read.
FinishConsuming(op, r) ==
  /\ ret' = [op |-> op, outcome |-> r.outcome, val |-> r.val,
             again |-> (ret.op = op),
             after |-> held.mutated,
             stale |-> FALSE,
             turned |-> FALSE]
  /\ warnings' = r.warns
  /\ held' = IF r.outcome = "return"
             THEN [op |-> op, val |-> r.val, mutated |-> FALSE]
             ELSE NoHeld
  /\ config' = IF op = "getDomainConfig"
               THEN [exists |-> FALSE, readable |-> FALSE, text |-> ""]
               ELSE config
  /\ UNCHANGED <<rootReadable, root, hostVars>>

\* The call of accessor op ends as r: the caller has the outcome, and the object.
\* stale: the filesystem has changed since; turned: the same accessor was
\* called before, the filesystem changed in between and the value is another.
Finish(op, r) ==
  /\ ret' = [op |-> op, outcome |-> r.outcome, val |-> r.val,
             again |-> (ret.op = op),
             after |-> held.mutated,
             stale |-> FALSE,
             turned |-> (ret.stale /\ ret.op = op /\ ret.val # r.val)]
  /\ warnings' = r.warns
  /\ held' = IF r.outcome = "return"
             THEN [op |-> op, val |-> r.val, mutated |-> FALSE]
             ELSE NoHeld
  /\ UNCHANGED <<fsVars, hostVars>>

CallGetDomainConfig == Finish("getDomainConfig", getDomainConfig)
CallGetSchemas == Finish("getSchemas", getSchemas)
CallGetWorkflows == Finish("getWorkflows", getWorkflows)
CallGetTasks == Finish("getTasks", getTasks)
CallGetViews == Finish("getViews", getViews)
CallGetFunctions == Finish("getFunctions", getFunctions)
CallGetExtensions == Finish("getExtensions", getExtensions)
CallGetAvailableTypes == Finish("getAvailableTypes", getAvailableTypes)
CallGetDomainName == Finish("getDomainName", getDomainName)

\* The caller changes the array it was handed: pops the last element.
CallerMutatesList ==
  /\ held.op = "getAvailableTypes" /\ ~held.mutated /\ Len(held.val) > 0
  /\ held' = [held EXCEPT !.val = SubSeq(held.val, 1, Len(held.val) - 1),
                          !.mutated = TRUE]
  /\ UNCHANGED <<fsVars, hostVars, ret, warnings>>

\* The caller changes the mapping it was handed: adds a key or deletes one.
CallerMutatesMapping ==
  /\ held.op \in ComponentOps /\ ~held.mutated
  /\ \/ held' = [held EXCEPT !.val = put(held.val, "injected", Null), !.mutated = TRUE]
     \/ \E k \in DOMAIN held.val :
          held' = [held EXCEPT !.val = [j \in (DOMAIN held.val) \ {k} |-> held.val[j]],
                               !.mutated = TRUE]
  /\ UNCHANGED <<fsVars, hostVars, ret, warnings>>

----------------------------------------------------------------------------
(* Filesystem states the runs start from.                                  *)

\* Sequences of at most n elements of S whose names are pairwise distinct
\* (a directory never lists one name twice).
Listings(S, n) ==
  UNION {{l \in [1..k -> S] : \A i, j \in 1..k : l[i].name = l[j].name => i = j}
         : k \in 0..n}

NoConfig == [exists |-> FALSE, readable |-> FALSE, text |-> ""]
ConfigFile(text) == [exists |-> TRUE, readable |-> TRUE, text |-> text]
LockedConfig == [exists |-> TRUE, readable |-> FALSE, text |-> ""]

Texts == {"{\"x\":1}", "{\"key\":\"flow1\"}", "[1]", "42", "\"s\"", "true", "null", "{", ""}

ConfigStates == {NoConfig, LockedConfig} \cup {ConfigFile(t) : t \in Texts}

Dir(name, sub) == [name |-> name, kind |-> "dir", sub |-> sub]

\* The repository's own layout: core/ with all six component directories.
TemplateCore ==
  Dir("core", [s \in Subdirs |->
                 IF s = "Workflows"
                 THEN DirNode(<<File("flow1.json", "{\"key\":\"flow1\"}")>>)
                 ELSE DirNode(<<>>)])

\* Accessor runs: one directory "core" with at most MaxChildren component
\* entries, each a regular file or a directory with one of a few listings,
\* alone or behind a hidden directory that holds Schemas.
SpecListings ==
  { <<>>,
    <<File("flow1.json", "{\"key\":\"flow1\"}")>>,
    <<File("a.json", "{\"x\":1}"), File("b.json", "{")>> }

SpecNodes == {FileNode} \cup {DirNode(l) : l \in SpecListings}

SubTrees ==
  {t \in [Subdirs -> {NoNode} \cup SpecNodes] :
     Cardinality({s \in Subdirs : t[s] # NoNode}) <= MaxChildren}

GitDir == Dir(".git", [NoSub EXCEPT !["Schemas"] = DirNode(<<>>)])

SpecRoots ==
  {<<>>} \cup {<<Dir("core", t)>> : t \in SubTrees}
         \cup {<<GitDir, Dir("core", t)>> : t \in SubTrees}

\* No call has been made; no mapping script is involved.
InitCalls ==
  /\ ret = NoCall
  /\ warnings = <<>>
  /\ held = NoHeld
  /\ environment = Null
  /\ daprTask = NoTask
  /\ running = Idle

Init ==
  /\ \/ /\ rootReadable = TRUE
        /\ root = <<TemplateCore>>
        /\ config \in ConfigStates
     \/ /\ rootReadable = TRUE
        /\ root \in SpecRoots
        /\ config = NoConfig
     \/ /\ rootReadable = FALSE
        /\ root \in {<<>>, <<TemplateCore>>}
        /\ config \in {NoConfig, ConfigFile("{\"x\":1}")}
  /\ InitCalls

Next ==
  \/ CallGetDomainConfig
  \/ CallGetSchemas
  \/ CallGetWorkflows
  \/ CallGetTasks
  \/ CallGetViews
  \/ CallGetFunctions
  \/ CallGetExtensions
  \/ CallGetAvailableTypes
  \/ CallGetDomainName
  \/ CallerMutatesList
  \/ CallerMutatesMapping

Spec == Init /\ [][Next]_vars

\* Locator runs: at most MaxRoot entries of every kind and name class, each
\* with one of a few sets of children.
LocNames == {"core", "app", ".git", "node_modules", "dist", "dist.old"}

LocSubs ==
  {NoSub} \cup {[NoSub EXCEPT ![s] = DirNode(<<>>)] :
                  s \in {"Schemas", "Workflows", "Tasks", "Views"}}
          \cup {[NoSub EXCEPT !["Schemas"] = FileNode]}

LocEntries ==
  {[name |-> n, kind |-> "file", sub |-> NoSub] : n \in LocNames}
    \cup {[name |-> n, kind |-> k, sub |-> t] :
            n \in LocNames, k \in {"dir", "link"}, t \in LocSubs}

InitLocator ==
  /\ rootReadable = TRUE
  /\ root \in Listings(LocEntries, MaxRoot)
  /\ config = NoConfig
  /\ InitCalls

NextLocator == CallGetDomainName

SpecLocator == InitLocator /\ [][NextLocator]_vars

\* Loader runs: core/Schemas holds at most MaxFiles entries: valid, malformed
\* and unreadable files and subdirectories, under names with and without the
\* suffix and with the suffix inside the name.
LoaderNames ==
  {"a.json", "b.json", "x.json.bak.json", "x.bak.json.json", "a.txt", "a.json.txt"}

LoaderEntries ==
  {File(n, t) : n \in LoaderNames, t \in {"{\"x\":1}", "42", "{"}}
    \cup {LockedFile(n) : n \in LoaderNames}
    \cup {SubFolder(n) : n \in LoaderNames}
    \cup {NestedFolder(n, <<File("a.json", "{\"x\":1}")>>) : n \in LoaderNames}

InitLoader ==
  /\ rootReadable = TRUE
  /\ \E l \in Listings(LoaderEntries, MaxFiles) :
       root = <<Dir("core", [NoSub EXCEPT !["Schemas"] = DirNode(l)])>>
  /\ config = NoConfig
  /\ InitCalls

NextLoader == CallGetSchemas

SpecLoader == InitLoader /\ [][NextLoader]_vars

----------------------------------------------------------------------------
(* Calls interleaved with changes of the filesystem: one domain directory  *)
(* with a Schemas and a Workflows directory, and the configuration file.   *)

FreshNames == {"core", "app", ".old"}
FreshFiles == {"a.json", "b.json"}
FreshTexts == {"{\"x\":1}", "{"}
FreshConfigs == {NoConfig, ConfigFile("{\"x\":1}"), ConfigFile("{")}

\* The filesystem changes, by something other than the module; the result the
\* caller holds is from before the change.
Changed ==
  /\ ret' = [ret EXCEPT !.stale = TRUE]
  /\ UNCHANGED <<rootReadable, warnings, held, hostVars>>

\* The domain directory with its Schemas directory listing l.
withSchemas(l) == <<[root[1] EXCEPT !.sub["Schemas"] = DirNode(l)]>>

\* Positions of the file called name in the Schemas directory.
at(name) ==
  {i \in 1..Len(root[1].sub["Schemas"].list) : root[1].sub["Schemas"].list[i].name = name}

without(l, i) == SubSeq(l, 1, i - 1) \o SubSeq(l, i + 1, Len(l))

AddFile ==
  \E name \in FreshFiles, text \in FreshTexts :
    /\ at(name) = {}
    /\ Len(root[1].sub["Schemas"].list) < MaxFiles
    /\ root' = withSchemas(Append(root[1].sub["Schemas"].list, File(name, text)))
    /\ UNCHANGED config
    /\ Changed

RemoveFile ==
  \E i \in 1..Len(root[1].sub["Schemas"].list) :
    /\ root' = withSchemas(without(root[1].sub["Schemas"].list, i))
    /\ UNCHANGED config
    /\ Changed

RewriteFile ==
  \E i \in 1..Len(root[1].sub["Schemas"].list), text \in FreshTexts :
    /\ root[1].sub["Schemas"].list[i].text # text
    /\ root' = withSchemas([root[1].sub["Schemas"].list EXCEPT ![i].text = text])
    /\ UNCHANGED config
    /\ Changed

RenameDomain ==
  \E name \in FreshNames \ {root[1].name} :
    /\ root' = <<[root[1] EXCEPT !.name = name]>>
    /\ UNCHANGED config
    /\ Changed

\* The domain directory is replaced by a new one with empty component
\* directories.
EmptyDomain(name) ==
  Dir(name, [NoSub EXCEPT !["Schemas"] = DirNode(<<>>), !["Workflows"] = DirNode(<<>>)])
ReplaceDomain ==
  /\ root[1] # EmptyDomain(root[1].name)
  /\ root' = <<EmptyDomain(root[1].name)>>
  /\ UNCHANGED config
  /\ Changed

WriteConfig ==
  \E c \in FreshConfigs \ {config} :
    /\ config' = c
    /\ UNCHANGED root
    /\ Changed

InitFresh ==
  /\ rootReadable = TRUE
  /\ root = <<Dir("core", [NoSub EXCEPT
                 !["Schemas"] = DirNode(<<File("a.json", "{\"x\":1}")>>),
                 !["Workflows"] = DirNode(<<File("flow1.json", "{\"key\":\"flow1\"}")>>)])>>
  /\ config = NoConfig
  /\ InitCalls

NextFresh ==
  \/ CallGetDomainConfig
  \/ CallGetSchemas
  \/ CallGetWorkflows
  \/ CallGetTasks
  \/ CallGetViews
  \/ CallGetFunctions
  \/ CallGetExtensions
  \/ CallGetAvailableTypes
  \/ CallGetDomainName
  \/ AddFile
  \/ RemoveFile
  \/ RewriteFile
  \/ RenameDomain
  \/ ReplaceDomain
  \/ WriteConfig

SpecFresh == InitFresh /\ [][NextFresh]_vars

----------------------------------------------------------------------------
(* One call of getSchemas followed one filesystem access at a time, while  *)
(* another process changes the tree. The accesses of the Domain Locator    *)
(* (readdirSync of the working directory, existsSync of the markers) are   *)
(* taken as one step.                                                      *)

\* The call ends as r and the caller has the outcome.
ends(r) ==
  /\ ret' = [op |-> "getSchemas", outcome |-> r.outcome, val |-> r.val,
             again |-> (ret.op = "getSchemas"), after |-> held.mutated,
             stale |-> FALSE, turned |-> FALSE]
  /\ warnings' = r.warns
  /\ held' = IF r.outcome = "return"
             THEN [op |-> "getSchemas", val |-> r.val, mutated |-> FALSE]
             ELSE NoHeld
  /\ running' = Idle
  /\ UNCHANGED <<fsVars, environment, daprTask>>

\* The call goes on with its local variables as they are in next.
goesOn(next) ==
  /\ running' = next
  /\ UNCHANGED <<fsVars, ret, warnings, held, environment, daprTask>>

\* const domainDir = findDomainDirectory(); if (!domainDir) return {};
located(d) ==
  IF d.outcome = "throw" THEN ends(Throw)
  ELSE IF d.val = Null THEN ends(Return(EmptyObject))
  ELSE goesOn([running EXCEPT !.pc = "located", !.dirPath = pathJoin(d.val.v, "Schemas")])
StepLocate ==
  /\ running.pc = "idle"
  /\ located(findDomainDirectory)

\* if (!fs.existsSync(dirPath)) return {};
StepExists ==
  /\ running.pc = "located"
  /\ IF ~existsSync(running.dirPath) THEN ends(Return(EmptyObject))
     ELSE goesOn([running EXCEPT !.pc = "checked"])

\* const entries = fs.readdirSync(dirPath, { withFileTypes: true });
listed(d) ==
  IF ~d.ok THEN ends(Throw)
  ELSE goesOn([running EXCEPT !.pc = "listed", !.entries = d.entries, !.i = 1])
StepReaddir ==
  /\ running.pc = "checked"
  /\ listed(readdirSync(running.dirPath))

\* One turn of the for-loop, on the entry as it was listed and the file as it
\* is now.
StepEntry ==
  /\ running.pc = "listed"
  /\ running.i <= Len(running.entries)
  /\ goesOn([running EXCEPT
               !.acc = loadEntry(running.dirPath, running.entries[running.i], running.acc),
               !.i = running.i + 1])

\* return files;
StepReturn ==
  /\ running.pc = "listed"
  /\ running.i > Len(running.entries)
  /\ ends(loaded(running.acc))

\* Another process removes the component directory.
RemoveComponentDir ==
  /\ root[1].sub["Schemas"].kind = "dir"
  /\ root' = <<[root[1] EXCEPT !.sub["Schemas"] = NoNode]>>
  /\ UNCHANGED config
  /\ Changed

NextSteps ==
  \/ StepLocate
  \/ StepExists
  \/ StepReaddir
  \/ StepEntry
  \/ StepReturn
  \/ RemoveComponentDir
  \/ RemoveFile
  \/ RewriteFile
  \/ RenameDomain
  \/ ReplaceDomain

SpecSteps == InitFresh /\ [][NextSteps]_vars

----------------------------------------------------------------------------
(* test-domain-detection.sh: the directory it settles on and its exit      *)
(* status. The part that follows (counting the JSON files jq accepts) only *)
(* prints.                                                                 *)

contains(s, p) == indexOf(s, p) # 0

\* find . -maxdepth 1 -type d | grep -v "^\./\." | grep -v "node_modules" |
\* grep -v "\.git", and the [[ ... ]] test on the name.
inDomainDirs(entry) ==
  /\ entry.kind = "dir"
  /\ ~startsWith(entry.name, ".")
  /\ ~contains(entry.name, "node_modules")
  /\ ~contains(entry.name, ".git")

\* [ -d "$dir/Schemas" ] || [ -d "$dir/Workflows" ] || [ -d "$dir/Tasks" ]
hasMarkerDir(entry) ==
  \/ entry.sub["Schemas"].kind = "dir"
  \/ entry.sub["Workflows"].kind = "dir"
  \/ entry.sub["Tasks"].kind = "dir"

\* The for-loop: DOMAIN_DIR after it, "" when no directory matched.
loopDomain(entries) ==
  LET n == Len(entries)
      found[i \in 0..n] ==
        IF i = 0 THEN ""
        ELSE IF inDomainDirs(entries[n - i + 1]) /\ hasMarkerDir(entries[n - i + 1])
             THEN entries[n - i + 1].name
             ELSE found[i - 1]
  IN found[n]

\* [ -d "core" ]: a directory, or a symbolic link to one.
coreIsDirectory ==
  \E i \in 1..Len(root) : root[i].name = "core" /\ root[i].kind \in {"dir", "link"}

\* The if after the loop: the template fallback, or exit 1.
settled(before, core) ==
  [outcome |-> "return",
   val |-> [t |-> "script",
            before |-> before,
            v |-> IF before # "" THEN before ELSE IF core THEN "core" ELSE "",
            exit |-> IF before = "" /\ ~core THEN "1" ELSE "0"],
   warns |-> <<>>]

detection == settled(loopDomain(root), coreIsDirectory)

RunDetection == Finish("test-domain-detection.sh", detection)

NextScript == CallGetDomainName \/ RunDetection

SpecScript == InitLocator /\ [][NextScript]_vars

----------------------------------------------------------------------------
(* test.js and validate.js: the checks that read the working directory,    *)
(* and the exit code. The checks of package.json pass: it is the           *)
(* repository's own file.                                                  *)

\* typeof v === 'object' && v !== null
isObject(v) == v.t \in {"object", "array"}

returns(r) == r.outcome = "return"

\* The six getters in the order the scripts call them.
Getters == <<getSchemas, getWorkflows, getTasks, getViews, getFunctions, getExtensions>>

\* Test 5 / Validation 6: every getter returns an object.
gettersWork == \A i \in 1..Len(Getters) : returns(Getters[i])

\* What the getters warn of until one of them raises.
warnsUpTo(n) ==
  LET w[i \in 0..n] == IF i = 0 THEN <<>> ELSE w[i - 1] \o Getters[i].warns
  IN w[n]
gettersWarnings ==
  warnsUpTo(firstOf({i \in 1..Len(Getters) : ~returns(Getters[i])} \cup {Len(Getters)}))

\* Test 4: getDomainConfig returns null or an object.
configNullOrObject(r) == returns(r) /\ r.val.t \in {"null", "object", "array"}

\* Test 8 / Validation 3: vnext.config.json, if it exists, parses to an object.
objectText(p) == p.ok /\ isObject(p.val)
configFileValid ==
  ~config.exists \/ (config.readable /\ objectText(JSONparse(config.text)))

\* Validation 5: vnext.config.json, if it exists, parses.
configFileParses ==
  ~config.exists \/ (config.readable /\ JSONparse(config.text).ok)

\* Test 9 / Validation 4: the domain exists and has one of the six directories.
structureValid(d) ==
  /\ returns(d)
  /\ d.val # Null => \E s \in Subdirs : existsSync(pathJoin(d.val.v, s))

\* Test 10 / Validation 5: every .json file beneath the domain, at any depth,
\* parses.
fileParses(x) == x.readable /\ JSONparse(x.text).ok
innerValid(y) == (isFile(y) /\ endsWith(y.name, ".json")) => fileParses(y)
entryValid(x) ==
  IF isDirectory(x) THEN \A k \in 1..Len(x.inner) : innerValid(x.inner[k])
  ELSE innerValid(x)
nodeValid(node) == node.kind = "dir" => \A k \in 1..Len(node.list) : entryValid(node.list[k])
treeValid(name) ==
  \A i \in 1..Len(root) :
    root[i].name = name => \A s \in Subdirs : nodeValid(root[i].sub[s])
jsonValid(d) == returns(d) /\ (d.val # Null => treeValid(d.val.v))

\* process.exit(1) when a check failed, process.exit(0) otherwise.
Exit(passed, warns) ==
  [outcome |-> "return",
   val |-> [t |-> "number", v |-> IF passed THEN "0" ELSE "1"],
   warns |-> warns]

testJs ==
  Exit(/\ configNullOrObject(getDomainConfig)
       /\ gettersWork
       /\ returns(getDomainName)
       /\ configFileValid
       /\ structureValid(getDomainName)
       /\ jsonValid(getDomainName),
       gettersWarnings)

validateJs ==
  Exit(/\ configFileValid
       /\ structureValid(getDomainName)
       /\ jsonValid(getDomainName)
       /\ configFileParses
       /\ gettersWork,
       gettersWarnings)

RunTestJs == Finish("test.js", testJs)
RunValidateJs == Finish("validate.js", validateJs)

\* A malformed .json file of the Schemas directory is made valid.
MakeValid ==
  \E i \in 1..Len(root[1].sub["Schemas"].list) :
    /\ isFile(root[1].sub["Schemas"].list[i])
    /\ endsWith(root[1].sub["Schemas"].list[i].name, ".json")
    /\ ~JSONparse(root[1].sub["Schemas"].list[i].text).ok
    /\ root' = withSchemas([root[1].sub["Schemas"].list EXCEPT ![i].text = "{\"x\":1}"])
    /\ UNCHANGED config
    /\ Changed

CliNames == {"a.json", "b.json", "a.txt"}
CliEntries == {File(n, t) : n \in CliNames, t \in {"{\"x\":1}", "{"}}
CliConfigs == {NoConfig, ConfigFile("{\"x\":1}"), ConfigFile("42")}

InitCli ==
  /\ rootReadable = TRUE
  /\ \E l \in Listings(CliEntries, MaxFiles) :
       root = <<Dir("core", [NoSub EXCEPT !["Schemas"] = DirNode(l)])>>
  /\ config \in CliConfigs
  /\ InitCalls

NextCli == RunTestJs \/ RunValidateJs \/ MakeValid

SpecCli == InitCli /\ [][NextCli]_vars

----------------------------------------------------------------------------
(* The mapping scripts of core/Workflows/src: InputHandler of              *)
(* InvalidateCacheMapping, InvalideCacheExecutionMapping and               *)
(* AvailableTransitionMapping.                                             *)

Upper == "ABCDEFGHIJKLMNOPQRSTUVWXYZ"
Lower == "abcdefghijklmnopqrstuvwxyz"

\* string.ToLower(), for the letters A..Z.
lowerAt(c, hits) == IF hits = {} THEN c ELSE SubSeq(Lower, least(hits), least(hits))
lowerChar(c) == lowerAt(c, {i \in 1..Len(Upper) : SubSeq(Upper, i, i) = c})
ToLower(s) ==
  LET low[i \in 0..Len(s)] ==
        IF i = 0 THEN "" ELSE low[i - 1] \o lowerChar(SubSeq(s, i, i))
  IN low[Len(s)]

\* string.Replace(p, r): every occurrence of p, left to right.
Replace(s, p, r) ==
  LET n == Len(s)
      rest[i \in 1..(n + 1)] ==
        IF i > n THEN ""
        ELSE IF i + Len(p) - 1 <= n /\ SubSeq(s, i, i + Len(p) - 1) = p
             THEN r \o rest[i + Len(p)]
             ELSE SubSeq(s, i, i) \o rest[i + 1]
  IN rest[1]

\* The if/else on the environment: the local id, or the templated id; the
\* else branch dereferences the value, which is null when the variable is unset.
selectAppId(env, local, name) ==
  IF env = Str("Development") THEN [ok |-> TRUE, appId |-> Str(local)]
  ELSE IF env = Null THEN [ok |-> FALSE, appId |-> Null]
  ELSE [ok |-> TRUE, appId |-> Str(name \o "." \o ToLower(env.v) \o "-" \o name)]

\* context.Instance.LatestData?.Version ?? "1.0.0"
versionOf(ctx) == IF ctx.latest = Null THEN "1.0.0" ELSE ctx.latest.v

\* The ScriptResponse of the two invalidate mappings.
invalidateData(ctx) ==
  [t |-> "response", v |-> "data", key |-> ctx.instance, flow |-> ctx.workflow,
   domain |-> ctx.domain, version |-> versionOf(ctx)]
EmptyResponse == [t |-> "response", v |-> "empty"]

\* A handler ends: it returns its response or the exception escapes.
handlerEnds(op, ok, response) ==
  /\ ret' = [op |-> op, outcome |-> IF ok THEN "return" ELSE "throw",
             val |-> IF ok THEN response ELSE Null,
             again |-> (ret.op = op), after |-> FALSE, stale |-> FALSE, turned |-> FALSE]
  /\ UNCHANGED <<fsVars, warnings, held, environment, running>>

\* InvalidateCacheMapping / InvalideCacheExecutionMapping: the method name is
\* set first, then the application id.
invalidateInput(op, method, sel, ctx) ==
  /\ daprTask' = [appId |-> IF sel.ok THEN sel.appId ELSE daprTask.appId,
                  methodName |-> Str(method)]
  /\ handlerEnds(op, sel.ok, invalidateData(ctx))

\* AvailableTransitionMapping: the application id is set first, then the
\* method name with its placeholders filled in and the version appended.
filled(m, ctx) ==
  Replace(Replace(Replace(m, "{domain}", ctx.domain), "{workflow}", ctx.workflow),
          "{instance}", ctx.instance) \o "?version=" \o ctx.version
transitionInput(op, sel, ctx) ==
  /\ daprTask' = IF sel.ok
                 THEN [appId |-> sel.appId,
                       methodName |-> Str(filled(daprTask.methodName.v, ctx))]
                 ELSE daprTask
  /\ handlerEnds(op, sel.ok, EmptyResponse)

Contexts ==
  [domain : {"core"}, workflow : {"flow1"}, instance : {"i1"},
   version : {"1.0.0", "2.0.0"}, latest : {Null, Str("3.1.0")}]

\* A task that no handler has completed on.
Unhandled == daprTask.appId = Null /\ daprTask.methodName # Null

InvalidateCacheInput ==
  \E ctx \in Contexts :
    /\ Unhandled
    /\ invalidateInput("InvalidateCacheMapping", "/api/v1/admin/invalidate",
                       selectAppId(environment, "vnext-app", "vnext-vnext"), ctx)

InvalideCacheExecutionInput ==
  \E ctx \in Contexts :
    /\ Unhandled
    /\ invalidateInput("InvalideCacheExecutionMapping", "/api/v1/utilities/invalidate",
                       selectAppId(environment, "vnext-execution-app",
                                   "vnext-vnext-execution"), ctx)

AvailableTransitionInput ==
  \E ctx \in Contexts :
    /\ Unhandled
    /\ transitionInput("AvailableTransitionMapping",
                       selectAppId(environment, "vnext-app", "vnext-vnext"), ctx)

\* The method names service tasks are defined with.
MethodTemplates ==
  {"/api/v1/{domain}/workflows/{workflow}/instances/{instance}/transitions",
   "/{domain}/{domain}",
   "/api/v1/health"}
FreshTasks == {[appId |-> Null, methodName |-> Str(m)] : m \in MethodTemplates}

\* The workflow engine hands the scripts another task.
NewTask ==
  /\ daprTask' \in FreshTasks \ {daprTask}
  /\ ret' = [ret EXCEPT !.stale = TRUE]
  /\ UNCHANGED <<fsVars, warnings, held, environment, running>>

Environments ==
  {Null, Str("Development"), Str("development"), Str("Production"), Str("Staging"), Str("")}

InitMapping ==
  /\ rootReadable = TRUE
  /\ root = <<>>
  /\ config = NoConfig
  /\ ret = NoCall
  /\ warnings = <<>>
  /\ held = NoHeld
  /\ environment \in Environments
  /\ daprTask \in FreshTasks
  /\ running = Idle

NextMapping ==
  \/ InvalidateCacheInput
  \/ InvalideCacheExecutionInput
  \/ AvailableTransitionInput
  \/ NewTask

SpecMapping == InitMapping /\ [][NextMapping]_vars

----------------------------------------------------------------------------
(* What the specification says of a filesystem state, stated without the   *)
(* module's own functions.                                                 *)

Markers == {"Schemas", "Workflows", "Tasks"}
Reserved == {"node_modules", "dist"}

Hidden(name) == SubSeq(name, 1, 1) = "."
Has(e, s) == e.sub[s].kind # "none"

\* Entry e is a directory, neither hidden nor reserved, with a marker beneath it.
Qualifies(e) ==
  /\ e.kind = "dir"
  /\ ~Hidden(e.name)
  /\ e.name \notin Reserved
  /\ \E s \in Markers : Has(e, s)

Returned(op) == ret.op = op /\ ret.outcome = "return"

----------------------------------------------------------------------------
(* C1..C3: the Domain Locator.                                             *)

\* C1: getDomainName() returns the name of the first entry, in enumeration
\* order, that qualifies (a directory, not hidden, not reserved, with Schemas,
\* Workflows or Tasks beneath it), and null when no entry qualifies; the result
\* is determined by the listing.
C1_FirstQualifying ==
  ret.op = "getDomainName" =>
    /\ ret.outcome = "return"
    /\ \A i \in 1..Len(root) :
         (Qualifies(root[i]) /\ \A j \in 1..(i - 1) : ~Qualifies(root[j]))
           => ret.val = Str(root[i].name)
    /\ (\A i \in 1..Len(root) : ~Qualifies(root[i])) => ret.val = Null

\* Two entries qualify and the call has returned the earlier one.
C1_Witness ==
  /\ Returned("getDomainName")
  /\ Len(root) = 2 /\ Qualifies(root[1]) /\ Qualifies(root[2])
  /\ ret.val = Str(root[1].name)

\* The entries that are subdirectories with a Schemas child.
WithSchemas == {i \in 1..Len(root) : root[i].kind = "dir" /\ Has(root[i], "Schemas")}

\* C2 as stated: whenever exactly one subdirectory of the working directory
\* has a Schemas child, getDomainName() returns that subdirectory's name,
\* whatever it is called and whatever else the working directory holds.
C2_AsStated ==
  (ret.op = "getDomainName" /\ Cardinality(WithSchemas) = 1) =>
    \A i \in WithSchemas : ret.outcome = "return" /\ ret.val = Str(root[i].name)

\* C2 amended: whenever exactly one subdirectory has a Schemas child, that
\* subdirectory is neither hidden nor reserved, and no entry enumerated before
\* it qualifies through Workflows or Tasks, getDomainName() returns its name.
C2_OnlySchemasDir ==
  (ret.op = "getDomainName" /\ Cardinality(WithSchemas) = 1) =>
    \A i \in WithSchemas :
      (/\ ~Hidden(root[i].name) /\ root[i].name \notin Reserved
       /\ \A j \in 1..(i - 1) : ~Qualifies(root[j]))
        => (ret.outcome = "return" /\ ret.val = Str(root[i].name))

\* The one subdirectory with Schemas is listed second, behind an entry that
\* does not qualify, and the call has returned its name.
C2_Witness ==
  /\ Returned("getDomainName")
  /\ WithSchemas = {2}
  /\ Qualifies(root[2]) /\ ~Qualifies(root[1])
  /\ \A s \in Subdirs \ {"Schemas"} : ~Has(root[2], s)
  /\ ret.val = Str(root[2].name)

\* No entry of the working directory has Schemas, Workflows or Tasks beneath it.
NoMarkerAnywhere ==
  \A i \in 1..Len(root) : \A s \in Markers : ~Has(root[i], s)

\* C3: in a (readable) working directory where no subdirectory contains
\* Schemas, Workflows or Tasks, getDomainName() returns null and each of the
\* six component accessors returns an empty mapping, also when a directory
\* holds Views, Functions or Extensions.
C3_NoDomainAllEmpty ==
  (rootReadable /\ NoMarkerAnywhere) =>
    /\ ret.op = "getDomainName" => (ret.outcome = "return" /\ ret.val = Null)
    /\ ret.op \in ComponentOps => (ret.outcome = "return" /\ ret.val = <<>>)

\* getViews has returned in a tree whose only component directory is a Views
\* directory with a JSON file in it.
C3_Witness ==
  /\ Returned("getViews")
  /\ rootReadable /\ NoMarkerAnywhere
  /\ Len(root) = 1 /\ root[1].sub["Views"].kind = "dir"
  /\ Len(root[1].sub["Views"].list) > 0
  /\ ret.val = <<>>

----------------------------------------------------------------------------
(* C4, C5: the Component Loader behind an accessor.                        *)

\* The filename with its trailing ".json" stripped.
Stem(name) == SubSeq(name, 1, Len(name) - 5)

HasSuffix(name) == Len(name) >= 5 /\ SubSeq(name, Len(name) - 4, Len(name)) = ".json"

\* The texts that are JSON documents.
ValidTexts == {"{\"x\":1}", "{\"key\":\"flow1\"}", "[1]", "42", "\"s\"", "true", "null"}

\* The entries of a listing that are .json files, split by whether they load.
JsonFiles(list) == {i \in 1..Len(list) : list[i].kind = "file" /\ HasSuffix(list[i].name)}
Parsing(list) == {i \in JsonFiles(list) : list[i].readable /\ list[i].text \in ValidTexts}
Failing(list) == JsonFiles(list) \ Parsing(list)

\* The listing of core/Schemas in a loader run.
SchemasList == root[1].sub["Schemas"].list

\* C4 as stated: loading a directory with any mix of valid and malformed .json
\* files returns a mapping whose keys are exactly the stems of the files that
\* parsed, each mapped to its parsed value; every malformed file's stem is
\* absent; no exception escapes.
C4_AsStated ==
  ret.op = "getSchemas" =>
    /\ ret.outcome = "return"
    /\ DOMAIN ret.val = {Stem(SchemasList[i].name) : i \in Parsing(SchemasList)}
    /\ \A i \in Parsing(SchemasList) :
         ret.val[Stem(SchemasList[i].name)] = JSONparse(SchemasList[i].text).val
    /\ \A i \in Failing(SchemasList) : Stem(SchemasList[i].name) \notin DOMAIN ret.val

\* C5 as stated: with a readable working directory every component accessor
\* returns a mapping and does not raise, whatever is found at <domain>/<Subdir>.
C5_AsStated ==
  (rootReadable /\ ret.op \in ComponentOps) => ret.outcome = "return"

----------------------------------------------------------------------------
(* C6, C7: getDomainConfig.                                                *)

C7_AsStated ==
  ret.op = "getDomainConfig" => ret.val.t \in {"null", "object", "array"}

----------------------------------------------------------------------------
(* C8..C10: the accessor surface.                                          *)

\* C8: getAvailableTypes() returns the six type names in their fixed order on
\* every call: with or without a domain, with an unreadable working directory,
\* and after a caller has changed a list returned earlier.
C8_TypesFixed ==
  ret.op = "getAvailableTypes" =>
    /\ ret.outcome = "return"
    /\ ret.val = <<"schemas", "workflows", "tasks", "views", "functions", "extensions">>

\* The call was made in an unreadable working directory by a caller that had
\* changed the list the call before had returned.
C8_Witness ==
  /\ Returned("getAvailableTypes")
  /\ ret.again /\ ret.after
  /\ ~rootReadable

\* C9: a call that repeats the accessor called just before it, with no change
\* of the filesystem in between, ends the same way with a deep-equal value.
C9_Idempotent ==
  [][(ret.op # "none" /\ ret'.op = ret.op /\ UNCHANGED fsVars)
       => (ret'.outcome = ret.outcome /\ ret'.val = ret.val)]_vars

\* A component accessor has been called twice in a row and returned a
\* non-empty mapping, with warnings, the second time.
C9_Witness ==
  /\ ret.op \in ComponentOps /\ ret.again /\ ret.outcome = "return"
  /\ ret.val # <<>> /\ warnings # <<>>

\* Entry e is a candidate directory whose only marker is a Workflows directory.
OnlyWorkflows(e) ==
  /\ e.kind = "dir" /\ ~Hidden(e.name) /\ e.name \notin Reserved
  /\ e.sub["Workflows"].kind = "dir"
  /\ ~Has(e, "Schemas") /\ ~Has(e, "Tasks")

\* The mapping the specification describes for a listing: each .json file
\* that parses, under its stem.
StemMapping(list) ==
  [k \in {Stem(list[i].name) : i \in Parsing(list)} |->
     JSONparse(list[CHOOSE i \in Parsing(list) : Stem(list[i].name) = k].text).val]

\* C10: a directory with a Workflows child and neither Schemas nor Tasks is the
\* domain when no earlier entry qualifies: getDomainName() returns its name and
\* getWorkflows() returns the mapping of the JSON files in its Workflows.
C10_WorkflowsSuffices ==
  \A i \in 1..Len(root) :
    (rootReadable /\ OnlyWorkflows(root[i]) /\ \A j \in 1..(i - 1) : ~Qualifies(root[j]))
      => /\ ret.op = "getDomainName"
              => (ret.outcome = "return" /\ ret.val = Str(root[i].name))
         /\ ret.op = "getWorkflows"
              => (ret.outcome = "return"
                  /\ ret.val = StemMapping(root[i].sub["Workflows"].list))

\* getWorkflows has returned {flow1: {key: "flow1"}} for core/Workflows/flow1.json.
C10_Witness ==
  /\ Returned("getWorkflows")
  /\ Len(root) = 1 /\ root[1].name = "core" /\ OnlyWorkflows(root[1])
  /\ root[1].sub["Workflows"].list = <<File("flow1.json", "{\"key\":\"flow1\"}")>>
  /\ ret.val = ("flow1" :> [t |-> "object", v |-> "{\"key\":\"flow1\"}"])

----------------------------------------------------------------------------
(* C11..C15: dispatch, exclusions and the absence conditions.              *)

\* The subdirectory each component accessor is documented to read.
CanonicalSubdir(op) ==
  CASE op = "getSchemas" -> "Schemas"
    [] op = "getWorkflows" -> "Workflows"
    [] op = "getTasks" -> "Tasks"
    [] op = "getViews" -> "Views"
    [] op = "getFunctions" -> "Functions"
    [] op = "getExtensions" -> "Extensions"

\* The positions of the entries that qualify, and the first of them.
QualifyingAt == {i \in 1..Len(root) : Qualifies(root[i])}
FirstQualifying == CHOOSE i \in QualifyingAt : \A j \in QualifyingAt : i <= j

\* C11: a component accessor returns an empty mapping when no domain is
\* found, and otherwise ends exactly as the Component Loader does on
\* <domain>/<its own canonical subdirectory>, <domain> being the first
\* qualifying entry; it never reads the subdirectory of another accessor.
C11_Dispatch ==
  (rootReadable /\ ret.op \in ComponentOps) =>
    IF QualifyingAt = {}
    THEN ret.outcome = "return" /\ ret.val = <<>> /\ warnings = <<>>
    ELSE /\ ret.outcome =
              loadJsonFiles(root[FirstQualifying].name \o "/" \o CanonicalSubdir(ret.op)).outcome
         /\ ret.val =
              loadJsonFiles(root[FirstQualifying].name \o "/" \o CanonicalSubdir(ret.op)).val
         /\ warnings =
              loadJsonFiles(root[FirstQualifying].name \o "/" \o CanonicalSubdir(ret.op)).warns

\* getViews has returned the files of core/Views, not those of core/Schemas,
\* which are different.
C11_Witness ==
  /\ Returned("getViews")
  /\ Len(root) = 1
  /\ root[1].sub["Schemas"] = DirNode(<<File("a.json", "{\"x\":1}"), File("b.json", "{")>>)
  /\ root[1].sub["Views"] = DirNode(<<File("flow1.json", "{\"key\":\"flow1\"}")>>)
  /\ DOMAIN ret.val = {"flow1"}

\* C12: getDomainName() never returns a name that starts with '.', nor
\* 'node_modules', nor 'dist', whatever such a directory contains; a qualifying
\* directory listed after hidden or reserved ones is returned instead.
C12_NeverHiddenOrReserved ==
  ret.op = "getDomainName" =>
    /\ ret.val # Null => (~Hidden(ret.val.v) /\ ret.val.v \notin Reserved)
    /\ \A i \in 1..Len(root) :
         (/\ Qualifies(root[i])
          /\ \A j \in 1..(i - 1) : Hidden(root[j].name) \/ root[j].name \in Reserved)
           => ret.val = Str(root[i].name)

\* A reserved or hidden directory with a marker is listed first, a qualifying
\* directory second, and the call has returned the second.
C12_Witness ==
  /\ Returned("getDomainName")
  /\ Len(root) = 2
  /\ root[1].kind = "dir" /\ (Hidden(root[1].name) \/ root[1].name \in Reserved)
  /\ \E s \in Markers : Has(root[1], s)
  /\ Qualifies(root[2])
  /\ ret.val = Str(root[2].name)

\* C13: a non-null value returned by getDomainName() is a string naming an
\* existing directory entry of the working directory, beneath which at least
\* one of the six component names exists.
C13_NamesExistingDomain ==
  (ret.op = "getDomainName" /\ ret.val # Null) =>
    /\ ret.outcome = "return"
    /\ ret.val.t = "string"
    /\ \E i \in 1..Len(root) :
         /\ root[i].name = ret.val.v
         /\ root[i].kind = "dir"
         /\ \E s \in Subdirs : Has(root[i], s)

\* The call has returned a name, of a directory that is not called "core".
C13_Witness ==
  /\ Returned("getDomainName")
  /\ ret.val # Null /\ ret.val.v # "core"
  /\ \A i \in 1..Len(root) : root[i].name # "core"

\* C14: when a domain is found and <domain>/<Subdir> does not exist, the
\* accessor of that subdirectory returns an empty mapping, emits no warning
\* and does not raise.
C14_MissingSubdirEmpty ==
  (/\ rootReadable /\ ret.op \in ComponentOps /\ QualifyingAt # {}
   /\ ~Has(root[FirstQualifying], CanonicalSubdir(ret.op)))
    => (ret.outcome = "return" /\ ret.val = <<>> /\ warnings = <<>>)

\* getViews has returned for a domain whose only component directory is a
\* Schemas directory holding a valid and a malformed file.
C14_Witness ==
  /\ Returned("getViews")
  /\ rootReadable /\ Len(root) = 1 /\ Qualifies(root[1])
  /\ \A s \in Subdirs \ {"Schemas"} : ~Has(root[1], s)
  /\ Len(root[1].sub["Schemas"].list) = 2
  /\ ret.val = <<>> /\ warnings = <<>>

\* C15: when the working directory cannot be enumerated, getDomainName() and
\* each of the six component accessors raise instead of returning null or an
\* empty mapping.
C15_UnreadableRootRaises ==
  (~rootReadable /\ ret.op \in ComponentOps \cup {"getDomainName"})
    => ret.outcome = "throw"

\* getSchemas has raised in an unreadable working directory that holds the
\* template domain.
C15_Witness ==
  /\ ~rootReadable /\ Len(root) = 1
  /\ ret.op = "getSchemas" /\ ret.outcome = "throw"

----------------------------------------------------------------------------
(* C16..C18: keys, filtering and warnings of one load.                     *)

\* Key k is name with one occurrence of ".json" taken out.
Derives(k, name) ==
  \E p \in 1..(Len(name) - 4) :
    /\ SubSeq(name, p, p + 4) = ".json"
    /\ k = SubSeq(name, 1, p - 1) \o SubSeq(name, p + 5, Len(name))

\* C16 as stated: the key of every loaded .json file is the filename with its
\* trailing '.json' stripped and nothing else changed, so that the keys of a
\* load are the stems of the files that parsed ('x.json.bak.json' gives
\* 'x.json.bak').
C16_AsStated ==
  Returned("getSchemas") =>
    \A i \in Parsing(SchemasList) :
      /\ Stem(SchemasList[i].name) \in DOMAIN ret.val
      /\ \A k \in DOMAIN ret.val :
           Derives(k, SchemasList[i].name) => k = Stem(SchemasList[i].name)

\* The names of the files inside the folders of a listing.
InnerNames(list) ==
  UNION {{list[i].inner[j].name : j \in 1..Len(list[i].inner)} : i \in 1..Len(list)}

\* C17: every key of a loaded mapping derives from a regular-file entry
\* directly inside the component directory whose name ends in '.json', and has
\* that file's parsed value; subdirectories (also those named *.json), files
\* inside subdirectories and files with another suffix contribute no key and
\* cause no warning, and the load does not raise.
C17_FlatSuffixFiltered ==
  ret.op = "getSchemas" =>
    /\ ret.outcome = "return"
    /\ \A k \in DOMAIN ret.val :
         \E i \in Parsing(SchemasList) :
           /\ Derives(k, SchemasList[i].name)
           /\ ret.val[k] = JSONparse(SchemasList[i].text).val
    /\ \A w \in 1..Len(warnings) :
         \E i \in Failing(SchemasList) : warnings[w].file = SchemasList[i].name
    /\ JsonFiles(SchemasList) = {} => (ret.val = <<>> /\ warnings = <<>>)

\* The directory held a folder named *.json with a valid a.json inside it and
\* a valid file with another suffix; the load returned nothing and warned of
\* nothing.
C17_Witness ==
  /\ Returned("getSchemas")
  /\ Len(SchemasList) = 2
  /\ SchemasList[1].kind = "dir" /\ HasSuffix(SchemasList[1].name)
  /\ "a.json" \in InnerNames(SchemasList)
  /\ SchemasList[2].kind = "file" /\ ~HasSuffix(SchemasList[2].name)
  /\ SchemasList[2].text = "{\"x\":1}"
  /\ ret.val = <<>> /\ warnings = <<>>

\* The error a .json file that does not load is reported with.
FailureOf(e) == IF e.readable THEN "SyntaxError" ELSE "EACCES"

\* One warning for each failing .json file of a listing, in enumeration order.
ExpectedWarnings(list) ==
  LET w[i \in 0..Len(list)] ==
        IF i = 0 THEN <<>>
        ELSE IF i \in Failing(list)
             THEN Append(w[i - 1], [file |-> list[i].name, error |-> FailureOf(list[i])])
             ELSE w[i - 1]
  IN w[Len(list)]

\* C18: one load emits exactly one warning for each .json file that fails,
\* naming the file and carrying the error, in enumeration order; files that
\* parse produce none; and every .json file that parses is loaded, also when
\* it is listed after one that failed.
C18_WarningProtocol ==
  ret.op = "getSchemas" =>
    /\ ret.outcome = "return"
    /\ warnings = ExpectedWarnings(SchemasList)
    /\ \A i \in Parsing(SchemasList) :
         \E k \in DOMAIN ret.val : Derives(k, SchemasList[i].name)

\* A malformed file was listed before a valid one: the load warned of the
\* first and returned the second.
C18_Witness ==
  /\ Returned("getSchemas")
  /\ Len(SchemasList) = 2
  /\ SchemasList[1] = File("b.json", "{")
  /\ SchemasList[2] = File("a.json", "{\"x\":1}")
  /\ warnings = <<[file |-> "b.json", error |-> "SyntaxError"]>>
  /\ DOMAIN ret.val = {"a"}

----------------------------------------------------------------------------
(* C19, C20: what a call returns is decided by the filesystem alone.       *)

\* The mapping of the component directory at node.
MappingOf(node) == IF node.kind = "dir" THEN StemMapping(node.list) ELSE <<>>

\* What the configuration file holds: its parsed content, or null.
ConfigValue ==
  IF config.exists /\ config.readable /\ config.text \in ValidTexts
  THEN JSONparse(config.text).val ELSE Null

\* What a first-ever call of accessor op returns in the present filesystem.
FirstCall(op) ==
  CASE op = "getDomainName" ->
         IF QualifyingAt = {} THEN Null ELSE Str(root[FirstQualifying].name)
    [] op = "getDomainConfig" -> ConfigValue
    [] op = "getAvailableTypes" -> TypeList
    [] op \in ComponentOps ->
         IF QualifyingAt = {} THEN <<>>
         ELSE MappingOf(root[FirstQualifying].sub[CanonicalSubdir(op)])

\* C19: whatever calls and changes of the filesystem came before, a call
\* returns exactly what a first-ever call returns in the filesystem state at
\* the time of the call.
C19_AlwaysFresh ==
  (ret.op # "none" /\ ~ret.stale) =>
    (ret.outcome = "return" /\ ret.val = FirstCall(ret.op))

\* getSchemas was called, the filesystem changed, and getSchemas called again
\* returned another value.
C19_Witness ==
  /\ ret.op = "getSchemas" /\ ret.outcome = "return"
  /\ ret.again /\ ret.turned /\ ~ret.stale

\* C20: what a caller did to the mapping (or list) an earlier call handed it
\* leaves no trace in what a later call returns: a component accessor called
\* after such a change returns the mapping of the files, without the keys the
\* caller added and with the keys it deleted.
C20_CallerOwned ==
  (ret.after /\ ret.outcome = "return") => ret.val = FirstCall(ret.op)

\* A component accessor has returned a non-empty mapping to a caller that had
\* changed the mapping a call before had handed it.
C20_Witness ==
  /\ ret.after /\ ret.op \in ComponentOps /\ ret.outcome = "return"
  /\ held.op = ret.op /\ held.val = ret.val /\ ~held.mutated
  /\ DOMAIN ret.val = {"a"}

----------------------------------------------------------------------------
(* C21, C22: the module writes nothing and keeps nothing.                  *)

\* C21: no call of an accessor, whether it returns, warns or raises, changes
\* the working directory, the domain tree or the configuration file.
C21_ReadOnly == [][fsVars' = fsVars]_vars

\* A component accessor has raised twice in a row in a readable working
\* directory, on a regular file where its component directory should be.
C21_Witness ==
  /\ ret.op \in ComponentOps /\ ret.outcome = "throw" /\ ret.again
  /\ rootReadable /\ root[1].sub[CanonicalSubdir(ret.op)].kind = "file"

\* Accessor op raises when it is the only call ever made.
RaisesAlone(op) ==
  /\ op \in ComponentOps \cup {"getDomainName"}
  /\ \/ ~rootReadable
     \/ /\ op \in ComponentOps
        /\ QualifyingAt # {}
        /\ root[FirstQualifying].sub[CanonicalSubdir(op)].kind = "file"

\* C22: over an unchanged filesystem, in every interleaving of the calls of
\* several callers (each call runs to its end before the next starts) and of
\* what the callers do to the objects they were handed, a call ends as it
\* would as the only call ever made.
C22_NonInterference ==
  ret.op # "none" =>
    /\ ret.outcome = "throw" <=> RaisesAlone(ret.op)
    /\ ret.outcome = "return" => ret.val = FirstCall(ret.op)

\* getViews has returned after a call of another accessor, whose result its
\* caller had changed.
C22_Witness ==
  /\ Returned("getViews") /\ ~ret.again /\ ret.after
  /\ ret.val # <<>>

----------------------------------------------------------------------------
(* C23, C28: files of one directory that are stored under the same key.    *)

\* C23: when two files of one directory that both parse are stored under the
\* same key, the mapping holds, under that one key, the value of the file that
\* is enumerated later, and the load neither raises nor warns of them.
C23_LaterWins ==
  ret.op = "getSchemas" =>
    /\ ret.outcome = "return"
    /\ \A i, j \in Parsing(SchemasList) :
         (i < j /\ baseName(SchemasList[i].name) = baseName(SchemasList[j].name))
           => /\ ret.val[baseName(SchemasList[j].name)] = JSONparse(SchemasList[j].text).val
              /\ \A w \in 1..Len(warnings) :
                   warnings[w].file \notin {SchemasList[i].name, SchemasList[j].name}

\* Two valid files with different contents were stored under one key: the
\* mapping has the content of the second.
C23_Witness ==
  /\ Returned("getSchemas")
  /\ SchemasList = <<File("x.json.bak.json", "{\"x\":1}"), File("x.bak.json.json", "42")>>
  /\ DOMAIN ret.val = {"x.bak.json"}
  /\ ret.val["x.bak.json"] = JSONparse("42").val
  /\ warnings = <<>>

\* C28 as stated: distinct filenames yield distinct keys, so the returned
\* mapping has as many keys as there are direct .json files that parsed.
C28_AsStated ==
  Returned("getSchemas") =>
    Cardinality(DOMAIN ret.val) = Cardinality(Parsing(SchemasList))

----------------------------------------------------------------------------
(* C24, C25: what counts as a marker and as a directory.                   *)

\* C24 as stated: a directory is returned as the domain only if Schemas,
\* Workflows or Tasks exists beneath it as a directory; one that merely holds
\* a regular file of such a name is not returned.
C24_AsStated ==
  (Returned("getDomainName") /\ ret.val # Null) =>
    \E i \in 1..Len(root) :
      /\ root[i].name = ret.val.v
      /\ \E s \in Markers : root[i].sub[s].kind = "dir"

\* Entry e is eligible when symbolic links to directories count as directories.
Eligible(e) ==
  /\ e.kind \in {"dir", "link"}
  /\ ~Hidden(e.name)
  /\ e.name \notin Reserved
  /\ \E s \in Markers : Has(e, s)

\* C25 as stated: a symbolic link to a directory with Schemas, Workflows or
\* Tasks, neither hidden nor reserved, is returned by getDomainName() when it
\* is the first eligible entry.
C25_AsStated ==
  ret.op = "getDomainName" =>
    \A i \in 1..Len(root) :
      (/\ root[i].kind = "link"
       /\ Eligible(root[i])
       /\ \A j \in 1..(i - 1) : ~Eligible(root[j]))
        => (ret.outcome = "return" /\ ret.val = Str(root[i].name))

----------------------------------------------------------------------------
(* C26: the exit code of the command-line checks.                          *)

\* C26 as stated: making a malformed JSON file of the domain valid does not
\* change the exit code of test.js or validate.js: a run after such a repair
\* never ends with another exit code than the run before it.
C26_AsStated ==
  ret.op \in {"test.js", "validate.js"} => ~ret.turned

----------------------------------------------------------------------------
(* C27: the application id the mapping scripts select.                     *)

MappingOps ==
  {"InvalidateCacheMapping", "InvalideCacheExecutionMapping", "AvailableTransitionMapping"}

\* C27 as stated: for every value of ASPNETCORE_ENVIRONMENT, also when it is
\* unset, InputHandler completes with the application id set (the local id
\* when the value is exactly 'Development') and the method name set.
C27_AsStated ==
  (ret.op \in MappingOps /\ ~ret.stale) =>
    /\ ret.outcome = "return"
    /\ daprTask.appId # Null
    /\ environment = Str("Development")
         => daprTask.appId \in {Str("vnext-app"), Str("vnext-execution-app")}
    /\ daprTask.methodName # Null

----------------------------------------------------------------------------
(* C29: a call whose directory changes under it.                           *)

\* C29 as stated: whatever another process removes or replaces between the
\* steps of one call, the component accessor returns a mapping and does not
\* raise.
C29_AsStated ==
  ret.op = "getSchemas" => ret.outcome = "return"

----------------------------------------------------------------------------
(* C30: the shell check against the module.                                *)

\* What getDomainName() returns in the present working directory, as the
\* script would write it.
ModuleDomain == IF findFrom(root) = Null THEN "" ELSE findFrom(root).v

\* C30 as stated: the directory test-domain-detection.sh chooses, before and
\* after its 'core' fallback, is the value getDomainName() returns, and the
\* script reports 'no domain' (exit 1) exactly when getDomainName() returns
\* null.
C30_AsStated ==
  ret.op = "test-domain-detection.sh" =>
    /\ ret.val.before = ModuleDomain
    /\ ret.val.v = ModuleDomain
    /\ ret.val.exit = "1" <=> ModuleDomain = ""

====
